---- MODULE Spec2Model ----
(***************************************************************************)
(* Node Kayles on a general undirected graph: the networkx graph the       *)
(* caller owns, the move remove_node_and_neighbors, the memoised           *)
(* SpragueGrundyAnalyzer, analyze_with_xor, get_path_grundy                *)
(* (src/Game/game_helpers.py) and the play_game loop (src/Game/main.py).   *)
(*                                                                         *)
(* Four specifications share the variables:                                *)
(*   Spec      a caller holding one graph and one analyzer and making one  *)
(*             call of game_helpers.py on them;                            *)
(*   MemoSpec  the same caller making several calls in a row;              *)
(*   GameSpec  play_game, one step per statement group of its loop;        *)
(*   MenuSpec  the menu's show_np_grid and analyze_disconnected.           *)
(***************************************************************************)
EXTENDS Integers, Sequences, FiniteSets, TLC

\* ------------------------------------------------------------- bounds
\* Largest node count of the enumerated graphs (nodes are 0 .. n-1).
MaxNodes == 4
\* Largest node count of the enumerated graphs of MemoSpec.
MaxMemoNodes == 2
\* Calls made in a behaviour of MemoSpec.
MaxCalls == 2
\* Largest max_size handed to get_path_grundy.
MaxPath == 8

NodeIds == 0 .. (MaxNodes - 1)

\* ------------------------------------------------------ python helpers
\* sorted(...) of a set of integers, as a sequence.
RECURSIVE sorted(_)
sorted(S) ==
    IF S = {} THEN << >>
    ELSE LET m == CHOOSE x \in S : \A y \in S : x <= y
         IN  << m >> \o sorted(S \ {m})

\* Iteration order of a set / frozenset of small non-negative ints in
\* CPython: hash(i) = i and the table is larger than every element, so the
\* slots are visited in ascending order.
iter(S) == sorted(S)

Range(s) == { s[i] : i \in 1 .. Len(s) }

\* a ^ b on non-negative integers.
RECURSIVE xor(_, _)
xor(a, b) ==
    IF a = 0 THEN b
    ELSE IF b = 0 THEN a
    ELSE (2 * xor(a \div 2, b \div 2)) + (((a % 2) + (b % 2)) % 2)

\* -------------------------------------------------------- networkx Graph
\* A Graph is [nodes |-> sequence of nodes in insertion order (the _node dict),
\*             adj   |-> node -> set of adjacent nodes (the _adj dict)].
\* (f @@ << >> is f, held by TLC as an explicit table.)
EmptyGraph == [nodes |-> << >>, adj |-> << >>]

NodeSet(G) == Range(G.nodes)

\* The elements of a sequence in the order of their first occurrence.
first_seen(s) ==
    LET P == { i \in 1 .. Len(s) : \A j \in 1 .. (i - 1) : s[j] # s[i] }
    IN  [k \in 1 .. Cardinality(P) |->
            s[CHOOSE p \in P : Cardinality({ q \in P : q <= p }) = k]]

\* G.add_nodes_from(seq): the new nodes are appended in the order given.
add_nodes_from(G, s) ==
    LET H == [nodes |-> first_seen(G.nodes \o s),
              adj   |-> [x \in NodeSet(G) \cup Range(s) |->
                           IF x \in NodeSet(G) THEN G.adj[x] ELSE {}]]
    IN  [nodes |-> H.nodes, adj |-> H.adj @@ << >>]

\* G.add_edges_from(seq of <<u, v>>): for each edge in turn u, then v, is added
\* as a node when missing, and each is put in the other's adjacency.
add_edges_from(G, s) ==
    LET ends == [i \in 1 .. (2 * Len(s)) |-> s[(i + 1) \div 2][2 - (i % 2)]]
        H    == add_nodes_from(G, ends)
    IN  [nodes |-> H.nodes,
         adj   |-> [x \in NodeSet(H) |->
                      H.adj[x] \cup { y \in NodeSet(H) :
                                        \E i \in 1 .. Len(s) :
                                            s[i] = << x, y >> \/ s[i] = << y, x >> }]
                   @@ << >>]

\* Faulty variant of G.remove_node(n): a node adjacent to n loses all of its
\* edges, not only the one to n.
nx_remove_node_detach(G, n) ==
    [nodes |-> SelectSeq(G.nodes, LAMBDA x : x # n),
     adj   |-> [x \in NodeSet(G) \ {n} |-> IF n \in G.adj[x] THEN {} ELSE G.adj[x]]
               @@ << >>]

\* G.remove_node(n): the node and every adjacency entry that names it.
nx_remove_node(G, n) ==
    [nodes |-> SelectSeq(G.nodes, LAMBDA x : x # n),
     adj   |-> [x \in NodeSet(G) \ {n} |-> G.adj[x] \ {n}] @@ << >>]

\* G.edges(): each edge once, as the tuple (u, v) with u the endpoint that comes
\* first in the node order.
nx_edges(G) ==
    { e \in NodeSet(G) \X NodeSet(G) :
        /\ e[2] \in G.adj[e[1]]
        /\ \E i, j \in 1 .. Len(G.nodes) :
              i < j /\ G.nodes[i] = e[1] /\ G.nodes[j] = e[2] }

\* G.subgraph(nodes).copy(), the nodes kept in the order `order`.
nx_subgraph(G, order) ==
    [nodes |-> order,
     adj   |-> [x \in Range(order) |-> G.adj[x] \cap Range(order)] @@ << >>]

\* nx.connected_components(G): breadth-first reachability from a node.
RECURSIVE reach(_, _)
reach(G, R) ==
    LET R2 == R \cup UNION { G.adj[x] : x \in R }
    IN  IF R2 = R THEN R ELSE reach(G, R2)

\* The components as a list, in the order of their first node in G's node order.
RECURSIVE components_from(_, _, _)
components_from(G, i, seen) ==
    IF i > Len(G.nodes) THEN << >>
    ELSE IF G.nodes[i] \in seen THEN components_from(G, i + 1, seen)
    ELSE LET c == reach(G, {G.nodes[i]})
         IN  << c >> \o components_from(G, i + 1, seen \cup c)

connected_components(G) == components_from(G, 1, {})

\* nx.path_graph(n): nodes 0 .. n-1, edges (i, i+1).
path_graph(n) ==
    add_edges_from(add_nodes_from(EmptyGraph, [i \in 1 .. n |-> i - 1]),
                   [i \in 1 .. (n - 1) |-> << i - 1, i >>])

\* ------------------------------------------------------- game mechanics
\* The loop of remove_node_and_neighbors over the saved neighbour list: each
\* neighbour still in the graph is removed.
RECURSIVE remove_neighbors(_, _)
remove_neighbors(G, neighbors) ==
    IF neighbors = << >> THEN G
    ELSE LET nb == Head(neighbors)
             H  == IF nb \in NodeSet(G) THEN nx_remove_node(G, nb) ELSE G
         IN  remove_neighbors([nodes |-> H.nodes, adj |-> H.adj @@ << >>],
                              Tail(neighbors))

\* Faulty variant of remove_node_and_neighbors: the neighbours go, the node
\* stays.
remove_neighbors_keep_node(G, node) ==
    IF node \notin NodeSet(G) THEN [ok |-> FALSE, G |-> G]
    ELSE [ok |-> TRUE, G |-> remove_neighbors(G, iter(G.adj[node]))]

\* Faulty variant of remove_node_and_neighbors: the neighbours stay.
remove_node_keep_neighbors(G, node) ==
    IF node \notin NodeSet(G) THEN [ok |-> FALSE, G |-> G]
    ELSE [ok |-> TRUE, G |-> nx_remove_node(G, node)]

\* Faulty variant of remove_node_and_neighbors: no test that the node exists.
remove_node_unchecked(G, node) ==
    [ok |-> TRUE,
     G  |-> IF node \notin NodeSet(G) THEN G
            ELSE remove_neighbors(nx_remove_node(G, node), iter(G.adj[node]))]

\* remove_node_and_neighbors(G, node): [ok |-> the value returned, G |-> the
\* graph as the call leaves it].
remove_node_and_neighbors(G, node) ==
    IF node \notin NodeSet(G) THEN [ok |-> FALSE, G |-> G]
    ELSE LET neighbors == iter(G.adj[node])
         IN  [ok |-> TRUE,
              G  |-> remove_neighbors(nx_remove_node(G, node), neighbors)]

\* --------------------------------------------------- SpragueGrundyAnalyzer
\* mex(s): i = 0; while i in s: i += 1.
RECURSIVE mex_from(_, _)
mex_from(s, i) == IF i \in s THEN mex_from(s, i + 1) ELSE i

\* Faulty variant of mex: one more than the largest element.
mex_top(s) ==
    IF s = {} THEN 0 ELSE (CHOOSE m \in s : \A x \in s : x <= m) + 1

mex(s) == mex_from(s, 0)

EmptyMemo == << >>

\* SpragueGrundyAnalyzer(G): the object after __init__.
SpragueGrundyAnalyzer(G) ==
    [original_graph |-> G,
     nodes          |-> sorted(NodeSet(G)),
     edges          |-> nx_edges(G),
     memo           |-> EmptyMemo]

\* Faulty variant of _get_neighbors: only the orientation (node, n) is looked up.
get_neighbors_one_way(self, node, remaining_nodes) ==
    { n \in remaining_nodes : n # node /\ << node, n >> \in self.edges }

\* self._get_neighbors(node, remaining_nodes); both callers turn the list into a
\* set at once, so the set is what is modelled.
get_neighbors(self, node, remaining_nodes) ==
    { n \in remaining_nodes :
        n # node /\ (<< node, n >> \in self.edges \/ << n, node >> \in self.edges) }

\* The successor state the evaluator builds for `node`:
\* remaining - {node} - neighbors.
new_state(self, node, remaining) ==
    (remaining \ {node}) \ get_neighbors(self, node, remaining)

\* self._get_next_states(state): one successor per node, in iteration order.
get_next_states(self, state) ==
    LET order == iter(state)
    IN  [i \in 1 .. Len(order) |-> new_state(self, order[i], state)]

\* A query argument: None, or an explicit frozenset.
None == [isNone |-> TRUE, nodes |-> {}]
Some(S) == [isNone |-> FALSE, nodes |-> S]

\* `if state is None: state = frozenset(self.nodes)`
default_state(self, arg) == IF arg.isNone THEN Range(self.nodes) ELSE arg.nodes

\* Faulty variant of the memo lookup: a hit yields 0 whatever was stored.
memo_lookup_zero(memo, state) == [hit |-> state \in DOMAIN memo, g |-> 0]

\* `if state in self.memo: return self.memo[state]`: whether the state is a
\* key, and the value stored under it.
memo_lookup(memo, state) ==
    IF state \in DOMAIN memo THEN [hit |-> TRUE, g |-> memo[state]]
    ELSE [hit |-> FALSE, g |-> 0]

\* Faulty variant of the memo store: nothing is kept.
memo_forget(memo, state, g) == memo

\* Faulty variant of the memo store: the value kept is one too large.
memo_store_off(memo, state, g) == (state :> (g + 1)) @@ memo

\* `self.memo[state] = g`
memo_store(memo, state, g) == (state :> g) @@ memo

\* self.grundy(state) on an explicit state: [ret |-> the value returned,
\* self |-> the analyzer as the call leaves it]. grundy_loop is its for loop
\* from position i on, `vals` being next_grundy_values so far. The CASE makes
\* TLC evaluate a round's recursive call before the next round starts, as the
\* code does, instead of deferring it into the rounds that follow.
RECURSIVE grundy_state(_, _)
RECURSIVE grundy_loop(_, _, _, _)
grundy_loop(self, next_states, i, vals) ==
    IF i > Len(next_states) THEN [vals |-> vals, self |-> self]
    ELSE LET r == grundy_state(self, next_states[i])
         IN  CASE r.ret >= 0 ->
                 grundy_loop(r.self, next_states, i + 1, vals \cup {r.ret})

grundy_state(self, state) ==
    IF Cardinality(state) = 0 THEN [ret |-> 0, self |-> self]
    ELSE IF memo_lookup(self.memo, state).hit
         THEN [ret |-> memo_lookup(self.memo, state).g, self |-> self]
    ELSE LET l == grundy_loop(self, get_next_states(self, state), 1, {})
             g == mex(l.vals)
         IN  [ret  |-> g,
              self |-> [l.self EXCEPT !.memo = memo_store(l.self.memo, state, g)]]

\* self.grundy(state=None)
grundy(self, arg) == grundy_state(self, default_state(self, arg))

\* The recursive grundy calls nested inside self.grundy(state): none when the
\* call returns at line 288 or 291, else one more than the deepest nesting
\* under the calls of line 295, each made on the analyzer as the rounds before
\* it left it.
RECURSIVE grundy_nesting(_, _)
grundy_nesting(self, state) ==
    IF Cardinality(state) = 0 \/ memo_lookup(self.memo, state).hit THEN 0
    ELSE LET next_states == get_next_states(self, state)
             under == { grundy_nesting(
                            grundy_loop(self, SubSeq(next_states, 1, i - 1), 1, {}).self,
                            next_states[i]) : i \in 1 .. Len(next_states) }
         IN  1 + (CHOOSE d \in under : \A e \in under : e <= d)

\* self.is_N_position(state), self.is_P_position(state)
is_N_position(self, arg) ==
    LET r == grundy(self, arg) IN [ret |-> r.ret > 0, self |-> r.self]

is_P_position(self, arg) ==
    LET r == grundy(self, arg) IN [ret |-> r.ret = 0, self |-> r.self]

\* Faulty variant of the test of get_winning_moves' loop: the successor is an
\* N-position.
is_losing(g) == g > 0

\* The test of get_winning_moves' loop: the successor is a P-position.
is_winning(g) == g = 0

\* The for loop of get_winning_moves from position i on.
RECURSIVE winning_loop(_, _, _, _, _)
winning_loop(self, order, remaining, i, winning_moves) ==
    IF i > Len(order) THEN [ret |-> winning_moves, self |-> self]
    ELSE LET r == grundy_state(self, new_state(self, order[i], remaining))
         IN  CASE r.ret >= 0 ->
                 winning_loop(r.self, order, remaining, i + 1,
                              IF is_winning(r.ret) THEN Append(winning_moves, order[i])
                              ELSE winning_moves)

\* self.get_winning_moves(state=None)
get_winning_moves(self, arg) ==
    LET state == default_state(self, arg)
        p     == is_P_position(self, Some(state))
    IN  IF p.ret THEN [ret |-> << >>, self |-> p.self]
        ELSE winning_loop(p.self, iter(state), state, 1, << >>)

\* ------------------------------------------------------ analyze_with_xor
\* total_grundy ^= g over component_grundy.
RECURSIVE xor_all(_)
xor_all(gs) == IF gs = << >> THEN 0 ELSE xor(Head(gs), xor_all(Tail(gs)))

\* Faulty variant of the combination: the sum instead of the XOR.
RECURSIVE sum_all(_)
sum_all(gs) == IF gs = << >> THEN 0 ELSE Head(gs) + sum_all(Tail(gs))

combine_sum(gs) == sum_all(gs)

combine(gs) == xor_all(gs)

\* The nodes of G.subgraph(comp_nodes) are iterated either from the graph's
\* node dict or from the set comp_nodes (networkx picks by size): viaSet says
\* which, and with it the orientation of the edge tuples the analyzer sees.
component_graph(G, comp_nodes, viaSet) ==
    nx_subgraph(G, IF viaSet THEN iter(comp_nodes)
                   ELSE SelectSeq(G.nodes, LAMBDA x : x \in comp_nodes))

\* analyze_with_xor(G, verbose): [components, component_grundy, total].
analyze_with_xor(G, viaSet) ==
    LET components == connected_components(G)
        component_grundy ==
            [i \in 1 .. Len(components) |->
                grundy(SpragueGrundyAnalyzer(component_graph(G, components[i], viaSet)),
                       None).ret]
    IN  [components       |-> components,
         component_grundy |-> component_grundy,
         total            |-> combine(component_grundy)]

\* -------------------------------------------------------- get_path_grundy
\* get_path_grundy(max_size): the dictionary {0: 0, n: grundy(P_n)}.
get_path_grundy(max_size) ==
    [n \in 0 .. max_size |->
        IF n = 0 THEN 0 ELSE grundy(SpragueGrundyAnalyzer(path_graph(n)), None).ret]

\* ------------------------------------------------------- graph suppliers
\* create_sample_graph(); the node names 'A' .. 'I' are written 0 .. 8, which
\* keeps their sorted() order.
create_sample_graph ==
    add_edges_from(EmptyGraph,
        << <<0, 1>>, <<0, 2>>, <<1, 3>>, <<2, 3>>, <<2, 4>>, <<4, 5>>,
           <<6, 7>>, <<7, 8>>, <<8, 6>>, <<0, 6>> >>)

\* create_disconnected_graph(): a triangle, a path and an edge.
create_disconnected_graph ==
    add_edges_from(EmptyGraph,
        << <<0, 1>>, <<1, 2>>, <<2, 0>>, <<3, 4>>, <<4, 5>>, <<6, 7>> >>)

\* Two disjoint edges, entered edge by edge (analyze_graph, choice 3).
two_edges_graph == add_edges_from(EmptyGraph, << <<0, 1>>, <<2, 3>> >>)

\* Every graph on the nodes 0 .. n-1, n <= MaxNodes, the nodes added in
\* ascending order (generate_random_graph, path_graph) or in descending order
\* (edges entered by hand), then any set of edges.
Pairs(n) == { e \in (0 .. (n - 1)) \X (0 .. (n - 1)) : e[1] < e[2] }

\* G = nx.Graph(); G.add_nodes_from(order); G.add_edge(u, v) for each (u, v) of E.
build_graph(order, E) ==
    [nodes |-> order,
     adj   |-> [x \in Range(order) |->
                  { y \in Range(order) : << x, y >> \in E \/ << y, x >> \in E }]
               @@ << >>]

SmallGraphs(max) ==
    UNION { { build_graph([i \in 1 .. n |-> IF rev THEN n - i ELSE i - 1], E) :
                rev \in BOOLEAN, E \in SUBSET Pairs(n) } :
            n \in 0 .. max }

NamedGraphs == {create_sample_graph, create_disconnected_graph, two_edges_graph}

InputGraphs == SmallGraphs(MaxNodes) \cup NamedGraphs

\* ------------------------------------------------------------- the state
VARIABLES
    G,                \* the caller's graph (play_game's G)
    analyzer,         \* the caller's SpragueGrundyAnalyzer (play_game's `analyzer`)
    call,             \* the last call made: its arguments, the state it was
                      \* about, whether it repeats the call before it, its result
    ncalls,           \* calls made so far (bounded by MaxCalls)
    pc,               \* play_game / show_np_grid: the statement reached
    turn,             \* play_game's turn counter
    node,             \* play_game's parsed input
    temp_analyzer,    \* play_game's per-turn analyzer
    current_grundy,   \* play_game's current_grundy
    current_winning,  \* play_game's current_winning
    shown_grundy,     \* what draw_graph_with_position last returned
    winner,           \* the player announced as winner (0, 1), -1 while none
    committed,        \* history: the players who, since an N-position of theirs,
                      \* have only played moves of get_winning_moves
    max_size,         \* show_np_grid's max_size
    path_grundy,      \* get_path_grundy's dictionary
    grid,             \* create_np_grid's grid, as cell -> 0/1
    cursor            \* the loop indices of get_path_grundy / create_np_grid

vars == << ncalls, pc, turn, node, G, analyzer, temp_analyzer, current_grundy,
           current_winning, shown_grundy, winner, committed, max_size, path_grundy,
           grid, cursor, call >>

gameVars == << pc, turn, node, temp_analyzer, current_grundy, current_winning,
               shown_grundy, winner, committed >>
gridVars == << max_size, path_grundy, grid, cursor >>

NoAnalyzer == SpragueGrundyAnalyzer(EmptyGraph)
NoCall ==
    [op |-> "none", arg |-> None, state |-> {}, outcome |-> "none", repeat |-> FALSE,
     ret |-> 0]

GameIdle ==
    /\ pc = "idle" /\ turn = 0 /\ node = 0 /\ temp_analyzer = NoAnalyzer
    /\ current_grundy = 0 /\ current_winning = << >> /\ shown_grundy = 0
    /\ winner = -1 /\ committed = {}

GridIdle ==
    /\ max_size = 0 /\ path_grundy = << >> /\ grid = << >> /\ cursor = << 0, 0 >>

\* ---------------------------------------------------------------- Spec
\* A caller that builds a graph, builds an analyzer on it and makes one call
\* of game_helpers.py on them.
StateArgs == {None} \cup { Some(S) : S \in SUBSET NodeIds }

Init ==
    /\ G \in InputGraphs
    /\ analyzer = SpragueGrundyAnalyzer(G)
    /\ call = NoCall
    /\ ncalls = 0
    /\ GameIdle
    /\ GridIdle

Called(op, arg, state, ret) ==
    /\ call' = [op |-> op, arg |-> arg, state |-> state, outcome |-> "returned",
                repeat |-> (call.op = op /\ call.arg = arg /\ call.state = state),
                ret |-> ret]
    /\ ncalls' = ncalls + 1

\* analyzer.grundy(arg)
CallGrundy(arg) ==
    /\ LET r == grundy(analyzer, arg)
       IN  /\ analyzer' = r.self
           /\ Called("grundy", arg, default_state(analyzer, arg), r.ret)
    /\ UNCHANGED << G, gameVars, gridVars >>

\* analyzer.is_N_position(arg)
CallIsN(arg) ==
    /\ LET r == is_N_position(analyzer, arg)
       IN  /\ analyzer' = r.self
           /\ Called("is_N_position", arg, default_state(analyzer, arg), r.ret)
    /\ UNCHANGED << G, gameVars, gridVars >>

\* analyzer.is_P_position(arg)
CallIsP(arg) ==
    /\ LET r == is_P_position(analyzer, arg)
       IN  /\ analyzer' = r.self
           /\ Called("is_P_position", arg, default_state(analyzer, arg), r.ret)
    /\ UNCHANGED << G, gameVars, gridVars >>

\* analyzer.get_winning_moves(arg)
CallWinningMoves(arg) ==
    /\ LET r == get_winning_moves(analyzer, arg)
       IN  /\ analyzer' = r.self
           /\ Called("get_winning_moves", arg, default_state(analyzer, arg), r.ret)
    /\ UNCHANGED << G, gameVars, gridVars >>

\* remove_node_and_neighbors(G, n)
CallRemove(n) ==
    /\ LET r == remove_node_and_neighbors(G, n)
       IN  /\ G' = r.G
           /\ Called("remove_node_and_neighbors", Some({n}), NodeSet(G), r.ok)
    /\ UNCHANGED << analyzer, gameVars, gridVars >>

\* analyze_with_xor(G)
CallAnalyzeWithXor(viaSet) ==
    /\ Called("analyze_with_xor", None, NodeSet(G), analyze_with_xor(G, viaSet))
    /\ UNCHANGED << G, analyzer, gameVars, gridVars >>

\* analyzer = SpragueGrundyAnalyzer(G) on the graph as it is now
NewAnalyzer ==
    /\ analyzer' = SpragueGrundyAnalyzer(G)
    /\ Called("SpragueGrundyAnalyzer", None, NodeSet(G), 0)
    /\ UNCHANGED << G, gameVars, gridVars >>

First == pc = "idle" /\ ncalls = 0

Next ==
    \/ \E arg \in StateArgs : First /\ CallGrundy(arg)
    \/ \E arg \in StateArgs : First /\ CallIsN(arg)
    \/ \E arg \in StateArgs : First /\ CallIsP(arg)
    \/ \E arg \in StateArgs : First /\ CallWinningMoves(arg)
    \/ \E n \in NodeIds : First /\ CallRemove(n)
    \/ \E viaSet \in BOOLEAN : First /\ CallAnalyzeWithXor(viaSet)

Spec == Init /\ [][Next]_vars

\* ------------------------------------------------------------ MemoSpec
\* The same caller making up to MaxCalls calls in a row, so that a call finds
\* the memo the earlier ones left.
MemoIds == 0 .. (MaxMemoNodes - 1)
MemoArgs == {None} \cup { Some(S) : S \in SUBSET MemoIds }

MemoInit ==
    /\ G \in SmallGraphs(MaxMemoNodes) \cup NamedGraphs
    /\ analyzer = SpragueGrundyAnalyzer(G)
    /\ call = NoCall
    /\ ncalls = 0
    /\ GameIdle
    /\ GridIdle

More == pc = "idle" /\ ncalls < MaxCalls

MemoNext ==
    \/ \E arg \in MemoArgs : More /\ CallGrundy(arg)
    \/ \E arg \in MemoArgs : More /\ CallIsN(arg)
    \/ \E arg \in MemoArgs : More /\ CallIsP(arg)
    \/ \E arg \in MemoArgs : More /\ CallWinningMoves(arg)
    \/ \E n \in MemoIds : More /\ CallRemove(n)
    \/ More /\ NewAnalyzer

MemoSpec == MemoInit /\ [][MemoNext]_vars

\* ------------------------------------------------------------ GameSpec
\* play_game(G): the caller builds a graph, may already have made one move on
\* it with remove_node_and_neighbors, and plays.
GameGraphs == SmallGraphs(MaxNodes) \cup {create_sample_graph}

\* What a player may type: a node of some graph, present or not.
Inputs == NodeIds \cup NodeSet(analyzer.original_graph)

\* Faulty variant of players[turn % 2]: the other player.
other_player == (turn + 1) % 2

\* players[turn % 2], as 0 (Player 1) and 1 (Player 2)
current_player == turn % 2

\* draw_graph_with_position(G, title, SpragueGrundyAnalyzer): None (-1) on the
\* empty graph, else analyzer_class(G).grundy().
draw_graph_with_position(H) ==
    IF Len(H.nodes) = 0 THEN -1 ELSE grundy(SpragueGrundyAnalyzer(H), None).ret

GameInit ==
    /\ G \in GameGraphs
    /\ analyzer = NoAnalyzer
    /\ call = NoCall
    /\ ncalls = 0
    /\ pc = "start" /\ turn = 0 /\ node = 0 /\ temp_analyzer = NoAnalyzer
    /\ current_grundy = 0 /\ current_winning = << >> /\ shown_grundy = 0
    /\ winner = -1 /\ committed = {}
    /\ GridIdle

\* A move made on the graph before the game is started on it.
PreMove(n) ==
    /\ pc = "start"
    /\ ncalls = 0
    /\ LET r == remove_node_and_neighbors(G, n)
       IN  /\ G' = r.G
           /\ Called("remove_node_and_neighbors", Some({n}), NodeSet(G), r.ok)
    /\ UNCHANGED << analyzer, gameVars, gridVars >>

\* main.py 58-84: G_initial, the analysis of the initial position, the first
\* drawing, turn = 0.
Start ==
    /\ pc = "start"
    /\ LET a  == SpragueGrundyAnalyzer(G)
           r1 == grundy(a, None)
           r2 == get_winning_moves(r1.self, None)
       IN  analyzer' = r2.self
    /\ shown_grundy' = draw_graph_with_position(G)
    /\ turn' = 0
    /\ pc' = "loop"
    /\ UNCHANGED << G, call, ncalls, node, temp_analyzer, current_grundy,
                    current_winning, winner, committed, gridVars >>

\* main.py 86-104: the loop test holds; the position is analysed on a fresh
\* analyzer of the graph as it is.
Analyse ==
    /\ pc = "loop"
    /\ Len(G.nodes) > 0
    /\ LET a  == SpragueGrundyAnalyzer(G)
           r1 == grundy(a, None)
           r2 == get_winning_moves(r1.self, None)
       IN  /\ temp_analyzer' = r2.self
           /\ current_grundy' = r1.ret
           /\ current_winning' = r2.ret
    /\ pc' = "prompt"
    /\ UNCHANGED << G, analyzer, call, ncalls, turn, node, shown_grundy, winner,
                    committed, gridVars >>

\* main.py 86, 138: the loop test fails on an empty graph.
LoopExit ==
    /\ pc = "loop"
    /\ Len(G.nodes) = 0
    /\ pc' = "over"
    /\ UNCHANGED << G, analyzer, call, ncalls, turn, node, temp_analyzer,
                    current_grundy, current_winning, shown_grundy, winner, committed,
                    gridVars >>

Prompted(n, outcome) ==
    call' = [op |-> "input", arg |-> Some({n}), state |-> NodeSet(G),
             outcome |-> outcome, repeat |-> FALSE, ret |-> 0]

\* main.py 110-112: 'q'
Quit ==
    /\ pc = "prompt"
    /\ pc' = "aborted"
    /\ UNCHANGED << G, analyzer, call, ncalls, turn, node, temp_analyzer,
                    current_grundy, current_winning, shown_grundy, winner, committed,
                    gridVars >>

\* main.py 115-122: the input names no node of G: "Invalid node. Try again."
InvalidInput(n) ==
    /\ pc = "prompt"
    /\ n \notin NodeSet(G)
    /\ node' = n
    /\ Prompted(n, "Invalid node. Try again.")
    /\ UNCHANGED << G, analyzer, ncalls, pc, turn, temp_analyzer, current_grundy,
                    current_winning, shown_grundy, winner, committed, gridVars >>

\* main.py 115-121: the input names a node of G: break
ValidInput(n) ==
    /\ pc = "prompt"
    /\ n \in NodeSet(G)
    /\ node' = n
    /\ Prompted(n, "accepted")
    /\ pc' = "move"
    /\ UNCHANGED << G, analyzer, ncalls, turn, temp_analyzer, current_grundy,
                    current_winning, shown_grundy, winner, committed, gridVars >>

\* main.py 125: remove_node_and_neighbors(G, node)
Move ==
    /\ pc = "move"
    /\ G' = remove_node_and_neighbors(G, node).G
    /\ committed' = IF current_grundy > 0 /\ node \in Range(current_winning)
                    THEN committed \cup {current_player}
                    ELSE committed \ {current_player}
    /\ pc' = "moved"
    /\ UNCHANGED << analyzer, call, ncalls, turn, node, temp_analyzer, current_grundy,
                    current_winning, shown_grundy, winner, gridVars >>

\* main.py 128-132: the graph is empty: current_player wins, break.
Win ==
    /\ pc = "moved"
    /\ Len(G.nodes) = 0
    /\ winner' = current_player
    /\ pc' = "over"
    /\ UNCHANGED << G, analyzer, call, ncalls, turn, node, temp_analyzer,
                    current_grundy, current_winning, shown_grundy, committed, gridVars >>

\* main.py 135-136: the graph is drawn with its position and the turn passes.
Continue ==
    /\ pc = "moved"
    /\ Len(G.nodes) # 0
    /\ shown_grundy' = draw_graph_with_position(G)
    /\ turn' = turn + 1
    /\ pc' = "loop"
    /\ UNCHANGED << G, analyzer, call, ncalls, node, temp_analyzer, current_grundy,
                    current_winning, winner, committed, gridVars >>

GameNext ==
    \/ \E n \in NodeIds : PreMove(n)
    \/ Start
    \/ Analyse
    \/ LoopExit
    \/ Quit
    \/ \E n \in Inputs : InvalidInput(n)
    \/ \E n \in Inputs : ValidInput(n)
    \/ Move
    \/ Win
    \/ Continue

GameSpec == GameInit /\ [][GameNext]_vars

\* ------------------------------------------------------------ MenuSpec
\* main(): the menu's choices 4 (show_np_grid) and 5 (analyze_disconnected).

\* analyze_disconnected, choice 1: three paths of 2, 3 and 4 nodes starting at
\* 0, 10 and 20.
num_components == 3

RECURSIVE three_paths(_, _)
three_paths(H, c) ==
    IF c >= num_components THEN H
    ELSE LET comp_size  == 2 + c
             start_node == c * 10
             nodes      == [k \in 1 .. comp_size |-> start_node + k - 1]
         IN  three_paths(
                 add_edges_from(add_nodes_from(H, nodes),
                                [k \in 1 .. (comp_size - 1) |-> << nodes[k], nodes[k + 1] >>]),
                 c + 1)

MenuInit ==
    /\ G = EmptyGraph
    /\ analyzer = NoAnalyzer
    /\ call = NoCall
    /\ ncalls = 0
    /\ pc = "menu" /\ turn = 0 /\ node = 0 /\ temp_analyzer = NoAnalyzer
    /\ current_grundy = 0 /\ current_winning = << >> /\ shown_grundy = 0
    /\ winner = -1 /\ committed = {}
    /\ GridIdle

\* main.py 267-305: choice 5, on the graph of choice 1 or 2.
AnalyzeDisconnected(choice, viaSet) ==
    /\ pc = "menu"
    /\ LET H == IF choice = 1 THEN three_paths(EmptyGraph, 0)
                ELSE create_disconnected_graph
       IN  /\ G' = H
           /\ call' = [op |-> "analyze_with_xor", arg |-> None, state |-> NodeSet(H),
                       outcome |-> "returned", repeat |-> FALSE,
                       ret |-> analyze_with_xor(H, viaSet)]
    /\ UNCHANGED << analyzer, ncalls, gameVars, gridVars >>

\* main.py 245-262, show_np_grid, get_path_grundy line 407: path_grundy = {0: 0}
ShowNpGrid(size) ==
    /\ pc = "menu"
    /\ max_size' = size
    /\ path_grundy' = (0 :> 0)
    /\ grid' = << >>
    /\ cursor' = << 1, 0 >>
    /\ pc' = "paths"
    /\ UNCHANGED << G, analyzer, call, ncalls, turn, node, temp_analyzer,
                    current_grundy, current_winning, shown_grundy, winner, committed >>

\* get_path_grundy lines 408-411: one round of the loop, n = cursor[1].
PathStep ==
    /\ pc = "paths"
    /\ cursor[1] <= max_size
    /\ LET n == cursor[1]
           r == grundy(SpragueGrundyAnalyzer(path_graph(n)), None)
       IN  /\ analyzer' = r.self
           /\ path_grundy' = (n :> r.ret) @@ path_grundy
           /\ cursor' = << n + 1, 0 >>
    /\ UNCHANGED << G, call, ncalls, pc, turn, node, temp_analyzer, current_grundy,
                    current_winning, shown_grundy, winner, committed, max_size, grid >>

\* create_np_grid line 426: grid = np.zeros(...), once the paths are done.
PathsDone ==
    /\ pc = "paths"
    /\ cursor[1] > max_size
    /\ grid' = [c \in (0 .. max_size) \X (0 .. max_size) |-> 0]
    /\ cursor' = << 0, 0 >>
    /\ pc' = "grid"
    /\ UNCHANGED << G, analyzer, call, ncalls, turn, node, temp_analyzer,
                    current_grundy, current_winning, shown_grundy, winner, committed,
                    max_size, path_grundy >>

\* create_np_grid lines 428-431: one cell, i = cursor[1], j = cursor[2].
GridStep ==
    /\ pc = "grid"
    /\ cursor[1] <= max_size
    /\ LET i == cursor[1]
           j == cursor[2]
           total_grundy == xor(path_grundy[i], path_grundy[j])
       IN  /\ grid' = [grid EXCEPT ![<< j, i >>] = IF total_grundy > 0 THEN 1 ELSE 0]
           /\ cursor' = IF j < max_size THEN << i, j + 1 >> ELSE << i + 1, 0 >>
    /\ UNCHANGED << G, analyzer, call, ncalls, pc, turn, node, temp_analyzer,
                    current_grundy, current_winning, shown_grundy, winner, committed,
                    max_size, path_grundy >>

\* create_np_grid line 433, and back to the menu.
GridDone ==
    /\ pc = "grid"
    /\ cursor[1] > max_size
    /\ pc' = "menu"
    /\ UNCHANGED << G, analyzer, call, ncalls, turn, node, temp_analyzer,
                    current_grundy, current_winning, shown_grundy, winner, committed,
                    gridVars >>

MenuNext ==
    \/ \E choice \in {1, 2}, viaSet \in BOOLEAN : AnalyzeDisconnected(choice, viaSet)
    \/ \E size \in 0 .. MaxPath : ShowNpGrid(size)
    \/ PathStep
    \/ PathsDone
    \/ GridStep
    \/ GridDone

MenuSpec == MenuInit /\ [][MenuNext]_vars

\* ------------------------------------------- the game, as the spec states it
\* What the claims compare the code with: adjacency in the graph, the move
\* transition of the spec's 4.2, mex, the Sprague-Grundy recursion without a
\* memo, and the connected components of a state.
Adjacent(H, a, b) == a \in NodeSet(H) /\ b \in H.adj[a]

apply_move(H, S, n) == (S \ {n}) \ { m \in S : Adjacent(H, n, m) }

Mex(s) ==
    CHOOSE i \in 0 .. Cardinality(s) : i \notin s /\ \A j \in 0 .. (i - 1) : j \in s

RECURSIVE SG(_, _)
SG(H, S) ==
    IF S = {} THEN 0 ELSE Mex({ SG(H, apply_move(H, S, n)) : n \in S })

RECURSIVE Reach(_, _, _)
Reach(H, S, R) ==
    LET R2 == R \cup { m \in S : \E x \in R : Adjacent(H, x, m) }
    IN  IF R2 = R THEN R ELSE Reach(H, S, R2)

ComponentsOf(H, S) == { Reach(H, S, {n}) : n \in S }

Connected(H, S) == Cardinality(ComponentsOf(H, S)) = 1

\* XOR of the analyzer's Grundy numbers of the states in Cs.
RECURSIVE XorOfGrundy(_, _)
XorOfGrundy(self, Cs) ==
    IF Cs = {} THEN 0
    ELSE LET c == CHOOSE c \in Cs : TRUE
         IN  xor(grundy_state(self, c).ret, XorOfGrundy(self, Cs \ {c}))

QueryOps == {"grundy", "is_N_position", "is_P_position", "get_winning_moves"}

\* The last call was `op` on a state made of nodes of the analyzer's graph.
Queried(op) == call.op = op /\ call.state \subseteq Range(analyzer.nodes)

\* ------------------------------------------------------------------ C1
\* C1: whatever the graph and the state S of its nodes, grundy(S) is the
\* Sprague-Grundy number of S: 0 for the empty state, and for a connected
\* nonempty S the mex of the evaluator's own values of the successors
\* apply_move(S, n), n in S.
C1_GrundyIsSpragueGrundy ==
    Queried("grundy") =>
        LET H == analyzer.original_graph
            S == call.state
        IN  /\ call.ret = SG(H, S)
            /\ S = {} => call.ret = 0
            /\ Connected(H, S) =>
                 call.ret = Mex({ grundy_state(analyzer, apply_move(H, S, n)).ret :
                                    n \in S })

\* A connected state of three nodes or more was evaluated to 2 (the path P3).
C1_Witness ==
    /\ Queried("grundy")
    /\ Connected(analyzer.original_graph, call.state)
    /\ Cardinality(call.state) >= 3
    /\ call.ret = 2

\* ------------------------------------------------------------------ C2
\* C2: grundy(S) is the XOR of the evaluator's Grundy numbers of the connected
\* components of S; analyze_with_xor(G) returns what SpragueGrundyAnalyzer(G)
\* .grundy() returns; on two disjoint edges both are 1 XOR 1 = 0.
C2_DisjointSum ==
    /\ Queried("grundy") =>
         call.ret = XorOfGrundy(analyzer, ComponentsOf(analyzer.original_graph, call.state))
    /\ call.op = "analyze_with_xor" =>
         /\ call.ret.total = grundy(SpragueGrundyAnalyzer(G), None).ret
         /\ call.ret.total = SG(G, NodeSet(G))
         /\ G = two_edges_graph =>
              call.ret.component_grundy = << 1, 1 >> /\ call.ret.total = 0

\* analyze_with_xor ran on two disjoint edges and returned 0.
C2_Witness ==
    /\ call.op = "analyze_with_xor"
    /\ G = two_edges_graph
    /\ Len(call.ret.components) = 2
    /\ call.ret.total = 0

\* ------------------------------------------------------------------ C3
\* C3: get_winning_moves(S) is empty exactly when grundy(S) = 0, and otherwise
\* holds exactly the nodes n of S with grundy(apply_move(S, n)) = 0.
C3_WinningMoves ==
    Queried("get_winning_moves") =>
        LET H == analyzer.original_graph
            S == call.state
        IN  /\ (call.ret = << >>) <=> (SG(H, S) = 0)
            /\ (call.ret = << >>) <=> (grundy_state(analyzer, S).ret = 0)
            /\ Range(call.ret) = { n \in S : SG(H, apply_move(H, S, n)) = 0 }
            /\ Range(call.ret) =
                 { n \in S : grundy_state(analyzer, apply_move(H, S, n)).ret = 0 }

\* get_winning_moves returned some nodes of the state and left others out.
C3_Witness ==
    /\ Queried("get_winning_moves")
    /\ call.ret # << >>
    /\ Range(call.ret) # call.state

\* ------------------------------------------------------------------ C7
\* C7: a query on a state that holds a node the analyzer's graph does not
\* have is rejected as an invalid state: nothing is returned and the memo
\* gets no entry for it.
C7_InvalidStateRejected ==
    (call.op \in QueryOps /\ ~ (call.state \subseteq Range(analyzer.nodes))) =>
        /\ call.outcome = "invalid state"
        /\ call.state \notin DOMAIN analyzer.memo

\* ------------------------------------------------------------------ C4
\* C4: a player who, from an N-position of theirs on, only plays moves of
\* get_winning_moves finds an N-position with a winning move at each of their
\* turns and is the one announced as winner, whatever the other player does;
\* a move made from a P-position never empties the graph and leaves a
\* position of non-zero Grundy number.
C4_GrundyDecidesGame ==
    /\ winner # -1 => committed \subseteq {winner}
    /\ (pc = "prompt" /\ current_player \in committed) =>
          current_grundy > 0 /\ current_winning # << >>
    /\ (pc = "moved" /\ current_grundy = 0) => NodeSet(G) # {}
    /\ (pc = "loop" /\ turn > 0 /\ current_grundy = 0) => shown_grundy > 0

\* A game of three moves or more was won by a player who kept to the winning
\* moves.
C4_Witness == winner # -1 /\ turn >= 2 /\ committed = {winner}

\* ------------------------------------------------------------------ C5
\* C5: the nodes remove_node_and_neighbors leaves in the graph are the
\* successor state the evaluator builds for the same node from the state
\* before the move: by the per-turn analyzer, by the analyzer of the initial
\* graph, and by the spec's apply_move, whichever way the edges are stored.
C5_SameTransition ==
    pc = "moved" =>
        LET S == Range(temp_analyzer.nodes)
            order == iter(S)
        IN  /\ node \in S
            /\ NodeSet(G) = new_state(temp_analyzer, node, S)
            /\ NodeSet(G) = new_state(analyzer, node, S)
            /\ NodeSet(G) = apply_move(analyzer.original_graph, S, node)
            /\ \A i \in 1 .. Len(order) :
                  order[i] = node => NodeSet(G) = get_next_states(temp_analyzer, S)[i]

\* After a first move, a move took away a neighbour whose edge is stored with
\* the neighbour first.
C5_Witness ==
    /\ pc = "moved"
    /\ turn >= 1
    /\ \E m \in Range(temp_analyzer.nodes) \ NodeSet(G) :
          << m, node >> \in temp_analyzer.edges

\* ------------------------------------------------------------------ C6
\* C6: remove_node_and_neighbors on a node the graph does not have returns
\* False and leaves the graph as it was; an input naming no node of the graph
\* leaves the graph and the turn as they were and the loop at its prompt.
C6_InvalidMoveRejected ==
    [][ /\ (call'.op = "remove_node_and_neighbors" /\ ncalls' = ncalls + 1
              /\ call'.arg.nodes \cap NodeSet(G) = {}) =>
            (call'.ret = FALSE /\ G' = G)
        /\ (pc = "prompt" /\ call'.op = "input"
              /\ (call.op # "input" \/ call'.arg # call.arg \/ call'.state # call.state)
              /\ call'.arg.nodes \cap NodeSet(G) = {}) =>
            (/\ G' = G /\ turn' = turn /\ pc' = "prompt" /\ winner' = winner
             /\ call'.outcome = "Invalid node. Try again.") ]_vars

\* In the course of a game an input was turned down.
C6_Witness ==
    /\ pc = "prompt"
    /\ turn >= 1
    /\ ncalls = 1
    /\ call.op = "input"
    /\ call.outcome = "Invalid node. Try again."

\* ----------------------------------------------------------------- C10
\* C10: at every turn, the Grundy number and the winning moves the fresh
\* analyzer of the mutated graph gives are those the analyzer built on the
\* initial graph gives for the state S of the nodes left, and the Grundy
\* number is the Sprague-Grundy number of S in the initial graph: it depends
\* on S alone, not on the moves that led to it.
C10_HistoryIndependent ==
    pc = "prompt" =>
        LET S == NodeSet(G)
        IN  /\ current_grundy = grundy(analyzer, Some(S)).ret
            /\ current_winning = get_winning_moves(analyzer, Some(S)).ret
            /\ current_grundy = SG(analyzer.original_graph, S)
            /\ Range(temp_analyzer.nodes) = S

\* A position reached by two moves, still an N-position.
C10_Witness ==
    /\ pc = "prompt"
    /\ turn >= 2
    /\ current_grundy > 0
    /\ NodeSet(G) # NodeSet(analyzer.original_graph)

\* ------------------------------------------------------------------ C8
\* The Grundy numbers of P0 .. P4 as the documentation lists them.
PathReference == << 0, 1, 1, 2, 0 >>

\* C8: get_path_grundy gives P0 -> 0, P1 -> 1, P2 -> 1, P3 -> 2, P4 -> 0 and,
\* for every n up to 8, the value of the mex recursion computed without a
\* memo; the triangle is evaluated to 1.
C8_ReferenceValues ==
    /\ \A n \in DOMAIN path_grundy :
          /\ n <= 4 => path_grundy[n] = PathReference[n + 1]
          /\ n <= 8 => path_grundy[n] = SG(path_graph(n), 0 .. (n - 1))
    /\ pc = "grid" =>
          \A n \in 0 .. max_size : path_grundy[n] = get_path_grundy(max_size)[n]
    /\ (call.op = "analyze_with_xor" /\ G = create_disconnected_graph) =>
          /\ call.ret.components[1] = {0, 1, 2}
          /\ Cardinality(nx_edges(nx_subgraph(G, << 0, 1, 2 >>))) = 3
          /\ call.ret.component_grundy[1] = 1

\* The paths up to P8 and the triangle have all been evaluated.
C8_Witness ==
    /\ pc = "menu"
    /\ 8 \in DOMAIN path_grundy
    /\ path_grundy[3] = 2
    /\ call.op = "analyze_with_xor"
    /\ G = create_disconnected_graph
    /\ call.ret.component_grundy[1] = 1

\* ------------------------------------------------------------------ C9
\* C9: a grundy call that repeats the call before it finds its state in the
\* memo and returns the same value; no grundy or get_winning_moves call
\* changes the analyzer's nodes, edges or graph copy, nor the caller's graph.
C9_IdempotentFrame ==
    [][ /\ (ncalls' = ncalls + 1 /\ call'.op = "grundy" /\ call'.repeat) =>
            /\ call'.ret = call.ret
            /\ call.state # {} => memo_lookup(analyzer.memo, call.state).hit
        /\ (ncalls' = ncalls + 1 /\ call'.op \in {"grundy", "get_winning_moves"}) =>
            /\ analyzer'.nodes = analyzer.nodes
            /\ analyzer'.edges = analyzer.edges
            /\ analyzer'.original_graph = analyzer.original_graph
            /\ G' = G ]_vars

\* grundy was called twice in a row on the same state of two nodes or more.
C9_Witness ==
    /\ call.op = "grundy"
    /\ call.repeat
    /\ Cardinality(call.state) >= 2
    /\ call.state \in DOMAIN analyzer.memo

\* ----------------------------------------------------------------- C11
\* The states a game started on S can pass through: S, and with a state its
\* successors.
RECURSIVE PositionsFrom(_, _)
PositionsFrom(H, P) ==
    LET P2 == P \cup { apply_move(H, T, n) : << T, n >> \in
                          { e \in P \X UNION P : e[2] \in e[1] } }
    IN  IF P2 = P THEN P ELSE PositionsFrom(H, P2)

Positions(H, S) == PositionsFrom(H, {S})

\* C11: a grundy, is_N_position, is_P_position or get_winning_moves call on
\* an analyzer keeps every memo key with the value it had; the keys it adds
\* are non-empty positions of the state it was called on, and the value
\* stored under each is the Sprague-Grundy number of the key (a node that is
\* not in the graph counting as an isolated one); a new analyzer starts with
\* an empty memo, and no other step touches the memo, so every value ever
\* found in a memo is the Grundy number of its key. A call that finds its
\* state in the memo returns what an analyzer with an empty memo computes.
C11_MemoInvariant ==
    [][ LET added == (DOMAIN analyzer'.memo) \ (DOMAIN analyzer.memo)
            H     == analyzer'.original_graph
            fresh == grundy_state(SpragueGrundyAnalyzer(H), call'.state).ret
        IN  /\ (ncalls' = ncalls + 1 /\ call'.op \in QueryOps) =>
                  /\ H = analyzer.original_graph
                  /\ \A k \in DOMAIN analyzer.memo :
                        /\ k \in DOMAIN analyzer'.memo
                        /\ analyzer'.memo[k] = analyzer.memo[k]
                  /\ added \subseteq Positions(H, call'.state) \ {{}}
                  /\ \A k \in added : analyzer'.memo[k] = SG(H, k)
                  /\ call'.state \in DOMAIN analyzer.memo =>
                        /\ analyzer.memo[call'.state] = fresh
                        /\ call'.op = "grundy" => call'.ret = fresh
                        /\ call'.op = "is_N_position" => call'.ret = (fresh > 0)
                        /\ call'.op = "is_P_position" => call'.ret = (fresh = 0)
            /\ ~ (ncalls' = ncalls + 1 /\ call'.op \in QueryOps) =>
                  (analyzer'.memo = analyzer.memo \/ analyzer'.memo = EmptyMemo)
      ]_vars

\* A second query in a row found a memo of three keys or more, one of them a
\* key of three nodes or more with a non-zero value, and its own state in it.
C11_Witness ==
    /\ ncalls = 2
    /\ call.op \in QueryOps
    /\ call.state \in DOMAIN analyzer.memo
    /\ Cardinality(DOMAIN analyzer.memo) >= 3
    /\ \E k \in DOMAIN analyzer.memo : Cardinality(k) >= 3 /\ analyzer.memo[k] > 0

\* ----------------------------------------------------------------- C12
\* C12: a get_winning_moves call that repeats the call before it, on the same
\* analyzer and state, returns the same sequence; whatever calls came before,
\* the sequence is the one an analyzer with an empty memo returns, and its
\* nodes stand in the iteration order of the state.
C12_Deterministic ==
    [][ (ncalls' = ncalls + 1 /\ call'.op = "get_winning_moves") =>
            LET moves == call'.ret
                state == call'.state
            IN  /\ call'.repeat => moves = call.ret
                /\ moves = get_winning_moves(
                               SpragueGrundyAnalyzer(analyzer.original_graph),
                               Some(state)).ret
                /\ moves = SelectSeq(iter(state), LAMBDA n : n \in Range(moves))
      ]_vars

\* get_winning_moves was called twice in a row on the same state and returned
\* two nodes or more.
C12_Witness ==
    /\ ncalls = 2
    /\ call.op = "get_winning_moves"
    /\ call.repeat
    /\ Len(call.ret) >= 2

\* ----------------------------------------------------------------- C13
\* C13: a move leaves a proper subset of the nodes it found, without the node
\* chosen; the accepted moves and the nodes left never add up to more than the
\* N nodes the game started with, so that after N accepted moves at the latest
\* the graph is empty and the loop over; every successor state the evaluator
\* builds is a proper subset of its state, and the recursive calls of grundy
\* on a state of k nodes nest at most k deep.
C13_ShrinksAndTerminates ==
    LET N     == Cardinality(NodeSet(analyzer.original_graph))
        left  == Cardinality(NodeSet(G))
        S     == Range(temp_analyzer.nodes)
        fresh == SpragueGrundyAnalyzer(G)
    IN  /\ pc = "moved" =>
              /\ NodeSet(G) \subseteq S \ {node}
              /\ left < Cardinality(S)
              /\ turn + 1 + left <= N
        /\ pc \in {"loop", "prompt", "move"} => turn + left <= N
        /\ pc = "over" =>
              /\ left = 0
              /\ (IF winner = -1 THEN turn ELSE turn + 1) <= N
        /\ pc = "prompt" =>
              /\ \A i \in 1 .. left :
                    /\ get_next_states(fresh, NodeSet(G))[i] \subseteq NodeSet(G)
                    /\ get_next_states(fresh, NodeSet(G))[i] # NodeSet(G)
              /\ grundy_nesting(fresh, NodeSet(G)) <= left
              /\ grundy(fresh, None).ret = current_grundy

\* A game of three moves or more that took as many moves as the graph had
\* nodes, each move removing one node.
C13_Witness ==
    /\ pc = "over"
    /\ winner # -1
    /\ turn + 1 >= 3
    /\ turn + 1 = Cardinality(NodeSet(analyzer.original_graph))

\* ----------------------------------------------------------------- C14
\* C14: the player at the prompt is Player 1 (0) at turn 0 and changes exactly
\* when an accepted move has left nodes in the graph, the turn then going up
\* by one and so to the other player; from the prompt to the end of the move
\* the turn stays, so the player who moves is the one prompted; a winner is
\* announced once, only when that move has emptied the graph, and is that
\* player; with a winner announced the graph is empty and the loop is over.
C14_AlternationAndWinner ==
    [][ /\ turn' # turn =>
              /\ pc = "moved" /\ pc' = "loop"
              /\ NodeSet(G) # {} /\ G' = G
              /\ turn' = turn + 1
              /\ (turn' % 2) = 1 - (turn % 2)
        /\ (pc = "moved" /\ pc' = "loop") => turn' = turn + 1
        /\ (pc' = "prompt" /\ pc = "loop" /\ turn = 0) => (turn' % 2) = 0
        /\ winner' # winner =>
              /\ winner = -1
              /\ pc = "moved" /\ pc' = "over"
              /\ NodeSet(G) = {} /\ G' = G
              /\ Range(temp_analyzer.nodes) # {}
              /\ winner' = turn % 2
        /\ (pc = "moved" /\ NodeSet(G) = {}) => (pc' = "over" /\ winner' = turn % 2)
        /\ winner' # -1 => (NodeSet(G') = {} /\ pc' = "over")
      ]_vars

\* Player 2 won at the fourth move of a game.
C14_Witness ==
    /\ pc = "over"
    /\ winner = 1
    /\ turn = 3

\* ----------------------------------------------------------------- C15
\* C15: when grundy is called, on an analyzer with an empty memo, on a state
\* of more than one connected component, the search runs inside the
\* components only: every state it has gone through and stored, the state of
\* the call apart, lies within one component of that state.
C15_DecompositionFastPath ==
    (Queried("grundy") /\ ~ Connected(analyzer.original_graph, call.state)) =>
        \A k \in (DOMAIN analyzer.memo) \ {call.state} :
            \E c \in ComponentsOf(analyzer.original_graph, call.state) : k \subseteq c
====
